---- MODULE Spec2Model ----
(***************************************************************************)
(* NDI-webRTC.py: an NDI video source bridged to WebRTC peers.             *)
(*                                                                         *)
(* One asyncio event loop runs every coroutine of the program: the pump    *)
(* ndi_receive_frames, the aiohttp handler handle_offer, the recv calls    *)
(* the RTP senders make on each NDIVideoTrack, and cleanup.  A coroutine    *)
(* runs without interruption between two awaits that really suspend, so    *)
(* each action below is one such uninterrupted piece of a coroutine.       *)
(***************************************************************************)
EXTENDS Integers, Sequences, FiniteSets

VARIABLES
    phase,          \* "start", "finding" (ndi_connect), "serving", then
                    \* "exited" (asyncio.run ended) or "failed" (no receiver)
    polls,          \* discovery polls of ndi_connect that found no source
    frame_queue,    \* main: frame_queue = asyncio.Queue(maxsize=10)
    captured,       \* number of video frames the pump has captured so far
    pumpPc,         \* where the task of ndi_receive_frames stands
    cancelPump,     \* task.cancel() was called on the pump task
    ndi_recv,       \* the receiver handle: "live" or "destroyed"
    destroyCalls,   \* number of ndi.recv_destroy(ndi_recv) calls made
    staleCapture,   \* a capture was issued on a destroyed handle
    cleanupPc,      \* the cleanup task: "idle", "scheduled", "done"
    teardown,       \* the steps of the shutdown, in the order they were made
    session,        \* per offer: "none", "negotiating", "open", "failed"
    offer_type,     \* params["type"] of the body each session was made for
    last_frame,     \* NDIVideoTrack.last_frame of each session's track
    lastRecv,       \* what the most recent recv call did
    last_pts,       \* pts of the last frame each track returned
    response        \* status of the last HTTP response of POST /offer

vars == <<phase, polls, frame_queue, captured, pumpPc, cancelPump, ndi_recv,
          destroyCalls, staleCapture, cleanupPc, teardown, session, offer_type,
          last_frame, lastRecv, last_pts, response>>

-----------------------------------------------------------------------------
(* Bounds of the model *)

\* video frames the source delivers in one run
MaxFrames == 11

\* offers accepted in one run (one session and one track each)
MaxSessions == 2

\* discovery polls that may find no source before the model stops polling
MaxPolls == 3

\* wall-clock readings time.time() may give, in half ticks of the 90 kHz clock
MaxNow == 3

-----------------------------------------------------------------------------
(* Values *)

\* Python's None
None == [none |-> TRUE]

Sessions == 1..MaxSessions

\* a queue created without a capacity: asyncio.Queue()
maxsize_unbounded == Len(<<>>)

\* asyncio.Queue(maxsize=10)
maxsize == 10

\* the names the module binds at import time
ModuleGlobals ==
    {"sys", "np", "logging", "asyncio", "ndi", "web", "RTCPeerConnection",
     "RTCSessionDescription", "MediaStreamTrack", "VideoFrame", "Fraction"}

\* ndi.recv_capture_v2 with RECV_COLOR_FORMAT_BGRX_BGRA: four channels
RawFrame(n) == [seq |-> n, channels |-> 4]

\* np.copy(v.data) followed by np.delete(frame_data, 3, axis=2)
Normalise(v) == [seq |-> v.seq, channels |-> v.channels - 1]

\* np.zeros((480, 640, 3), dtype=np.uint8)
Zeros == [seq |-> 0, height |-> 480, width |-> 640, channels |-> 3, fill |-> 0]

\* asyncio.Queue.full(): a queue of maxsize <= 0 is never full
Full(q) == maxsize > 0 /\ Len(q) >= maxsize

\* room made by dropping the newest entry of a full queue instead
MakeRoom_newest(q) == IF Full(q) THEN SubSeq(q, 1, Len(q) - 1) ELSE q

\* a put that makes no room in a full queue
MakeRoom_none(q) == q

\* the put of the pump: one get_nowait when the queue is full
MakeRoom(q) == IF Full(q) THEN Tail(q) ELSE q

\* a loop that forgets last_frame when it finds the queue empty
DrainLatest_reset(q, last) ==
    IF q = <<>> THEN <<q, None>> ELSE <<<<>>, q[Len(q)]>>

\* the loop of recv: get_nowait into last_frame until QueueEmpty;
\* the result is the pair of what is left in the queue and last_frame
RECURSIVE DrainLatest(_, _)
DrainLatest(q, last) ==
    IF q = <<>> THEN <<q, last>> ELSE DrainLatest(Tail(q), Head(q))

\* the loop of cleanup: get_nowait while not empty
RECURSIVE DrainAll(_)
DrainAll(q) == IF q = <<>> THEN q ELSE DrainAll(Tail(q))

\* the choice of recv between the last frame and the placeholder
FrameData(last) == IF last # None THEN last ELSE Zeros

\* int(now * 90000) for a reading given in half ticks
ClockRate == 90000
Pts(now) == (now * ClockRate) \div (2 * ClockRate)

\* a check that rejects a body only when both keys are missing
Malformed_both(keys) == "sdp" \notin keys /\ "type" \notin keys

\* the check of handle_offer on the keys of the body
Malformed(keys) == "sdp" \notin keys \/ "type" \notin keys

\* the event loop is free when no coroutine is in the middle of a step
LoopFree == pumpPc # "capture"

-----------------------------------------------------------------------------
Init ==
    /\ phase = "start"
    /\ polls = 0
    /\ frame_queue = <<>>
    /\ captured = 0
    /\ pumpPc = "start"
    /\ cancelPump = FALSE
    /\ ndi_recv = "none"
    /\ destroyCalls = 0
    /\ staleCapture = FALSE
    /\ cleanupPc = "idle"
    /\ teardown = <<>>
    /\ session = [s \in Sessions |-> "none"]
    /\ offer_type = [s \in Sessions |-> ""]
    /\ last_frame = [s \in Sessions |-> None]
    /\ lastRecv = [track |-> 0, frame_data |-> None, returned |-> None,
                   raised |-> ""]
    /\ last_pts = [s \in Sessions |-> None]
    /\ response = 0

-----------------------------------------------------------------------------
(* Startup: ndi_connect *)

\* ndi.initialize() and ndi.find_create_v2(): either may fail
ndi_connect(ok) ==
    /\ phase = "start"
    /\ phase' = IF ok THEN "finding" ELSE "failed"
    /\ UNCHANGED <<polls, frame_queue, captured, pumpPc, cancelPump, ndi_recv,
                   destroyCalls, staleCapture, cleanupPc, teardown, session, offer_type,
                   last_frame, lastRecv, last_pts, response>>

\* One round of the discovery loop, and what follows the loop once a
\* source is advertised: the receiver, the settle delay, and in main the
\* queue, the pump task and the site.  The loop is left only with a
\* source, so the raise after it is never reached.
ndi_find_sources(sources, recv_ok) ==
    /\ phase = "finding"
    /\ IF ~sources
       THEN /\ polls < MaxPolls
            /\ polls' = polls + 1
            /\ UNCHANGED <<phase, ndi_recv>>
       ELSE /\ polls' = 0
            /\ phase' = IF recv_ok THEN "serving" ELSE "failed"
            /\ ndi_recv' = IF recv_ok THEN "live" ELSE "none"
    /\ UNCHANGED <<frame_queue, captured, pumpPc, cancelPump, destroyCalls,
                   staleCapture, cleanupPc, teardown, session, offer_type, last_frame,
                   lastRecv, last_pts, response>>

-----------------------------------------------------------------------------
(* The pump: ndi_receive_frames *)

\* a pump that an empty poll ends, as a raised timeout would
EmptyPollPc_ended == "ended"

\* where an empty poll leaves the pump: suspended in asyncio.sleep(0.01),
\* inside the while loop
EmptyPollPc == "sleep"

\* One iteration of the while loop.  A capture that yields a video frame
\* ends in a put that does not suspend, so the pump goes round again
\* without giving the event loop to any other coroutine; an empty poll
\* ends in asyncio.sleep(0.01), which does.  A put on a queue that is
\* still full suspends until a get makes room.
ndi_receive_frames(video) ==
    /\ phase = "serving"
    /\ \/ pumpPc \in {"start", "sleep", "put"} /\ ~cancelPump
       \/ pumpPc = "capture"
    /\ IF pumpPc = "put"
       THEN /\ ~Full(frame_queue)
            /\ video
            /\ frame_queue' = Append(frame_queue, Normalise(RawFrame(captured)))
            /\ pumpPc' = "capture"
            /\ UNCHANGED <<captured, staleCapture>>
       ELSE /\ staleCapture' = (staleCapture \/ ndi_recv = "destroyed")
            /\ IF video
               THEN /\ captured < MaxFrames
                    /\ captured' = captured + 1
                    /\ LET room == MakeRoom(frame_queue)
                           frame_data == Normalise(RawFrame(captured + 1))
                       IN IF Full(room)
                          THEN /\ frame_queue' = room
                               /\ pumpPc' = "put"
                          ELSE /\ frame_queue' = Append(room, frame_data)
                               /\ pumpPc' = "capture"
               ELSE /\ pumpPc' = EmptyPollPc
                    /\ UNCHANGED <<captured, frame_queue>>
    /\ UNCHANGED <<phase, polls, cancelPump, ndi_recv, destroyCalls, cleanupPc, teardown,
                   session, offer_type, last_frame, lastRecv, last_pts,
                   response>>

\* CancelledError is thrown into the pump at the await it is suspended in
pump_cancelled ==
    /\ phase = "serving"
    /\ pumpPc \in {"start", "sleep", "put"}
    /\ cancelPump
    /\ pumpPc' = "cancelled"
    /\ teardown' = Append(teardown, "pump_stopped")
    /\ UNCHANGED <<phase, polls, frame_queue, captured, cancelPump, ndi_recv,
                   destroyCalls, staleCapture, cleanupPc, session, offer_type,
                   last_frame, lastRecv, last_pts, response>>

-----------------------------------------------------------------------------
(* The track: NDIVideoTrack.recv *)

\* time.time(): the name time is looked up in the module's globals
TimeIsBound == "time" \in ModuleGlobals

\* A whole call of recv; it holds no await that suspends.
recv(s) ==
    /\ phase = "serving"
    /\ LoopFree
    /\ cleanupPc # "done"
    /\ session[s] = "open"
    /\ LET drained == DrainLatest(frame_queue, last_frame[s])
           frame_data == FrameData(drained[2])
       IN /\ frame_queue' = drained[1]
          /\ last_frame' = [last_frame EXCEPT ![s] = drained[2]]
          /\ IF TimeIsBound
             THEN \E now \in 0..MaxNow :
                    /\ lastRecv' = [track |-> s, frame_data |-> frame_data,
                                    returned |-> [data |-> frame_data,
                                                  pts |-> Pts(now),
                                                  time_base |-> <<1, ClockRate>>],
                                    raised |-> ""]
                    /\ last_pts' = [last_pts EXCEPT ![s] = [pts |-> Pts(now)]]
             ELSE /\ lastRecv' = [track |-> s, frame_data |-> frame_data,
                                  returned |-> None, raised |-> "NameError"]
                  /\ UNCHANGED last_pts
    /\ UNCHANGED <<phase, polls, captured, pumpPc, cancelPump, ndi_recv, destroyCalls,
                   staleCapture, cleanupPc, teardown, session, offer_type, response>>

-----------------------------------------------------------------------------
(* Signaling: handle_offer *)

Keys == {"sdp", "type"}

\* values of params["type"] a client may send
Types == {"offer", "answer"}

\* the session a new RTCPeerConnection becomes
FreeSessions == {s \in Sessions : session[s] = "none"}
NewSession == CHOOSE s \in FreeSessions : \A t \in FreeSessions : s <= t

\* From the request to the first await of the negotiation: the check of
\* the body, the RTCPeerConnection and the NDIVideoTrack added to it.
handle_offer(keys, type) ==
    /\ phase = "serving"
    /\ LoopFree
    /\ cleanupPc = "idle"
    /\ IF Malformed(keys)
       THEN /\ response' = 400
            /\ UNCHANGED <<session, offer_type, last_frame>>
       ELSE /\ FreeSessions # {}
            /\ session' = [session EXCEPT ![NewSession] = "negotiating"]
            /\ offer_type' = [offer_type EXCEPT ![NewSession] = type]
            /\ last_frame' = [last_frame EXCEPT ![NewSession] = None]
            /\ UNCHANGED response
    /\ UNCHANGED <<phase, polls, frame_queue, captured, pumpPc, cancelPump, ndi_recv,
                   destroyCalls, staleCapture, cleanupPc, teardown, lastRecv, last_pts>>

\* a handler that swallows the exception and goes on with the session
Negotiated_swallow(ok) == "open"

\* what becomes of the session: no line of handle_offer catches the
\* exception, so the peer connection and its track are left behind with
\* the handler's frame, never connected
Negotiated(ok) == IF ok THEN "open" ELSE "failed"

\* setRemoteDescription, createAnswer, setLocalDescription and the answer;
\* an exception of any of the three leaves the handler and aiohttp
\* answers 500.  A description that is not an offer cannot be applied to
\* a new peer connection, so the negotiation of such a body always fails.
handle_offer_answer(s, ok) ==
    /\ phase = "serving"
    /\ LoopFree
    /\ cleanupPc # "done"
    /\ session[s] = "negotiating"
    /\ ok => offer_type[s] = "offer"
    /\ session' = [session EXCEPT ![s] = Negotiated(ok)]
    /\ response' = IF ok THEN 200 ELSE 500
    /\ UNCHANGED <<phase, polls, frame_queue, captured, pumpPc, cancelPump, ndi_recv,
                   destroyCalls, staleCapture, cleanupPc, teardown, offer_type,
                   last_frame, lastRecv, last_pts>>

-----------------------------------------------------------------------------
(* Shutdown: cleanup and the end of asyncio.run *)

\* app.on_shutdown: the hook creates the task of cleanup
on_shutdown ==
    /\ phase = "serving"
    /\ LoopFree
    /\ cleanupPc = "idle"
    /\ cleanupPc' = "scheduled"
    /\ UNCHANGED <<teardown, phase, polls, frame_queue, captured, pumpPc, cancelPump, ndi_recv,
                   destroyCalls, staleCapture, session, offer_type, last_frame,
                   lastRecv, last_pts, response>>

\* a cleanup that releases the handle and leaves the tasks running
CancelOtherTasks_none == FALSE

\* task.cancel() for every task but the current one
CancelOtherTasks == TRUE

\* the statements of cleanup in the order it makes them: recv_destroy
\* and destroy, then the cancel loop, then the drain loop
CleanupOrder == <<"recv_destroy", "cancel", "drain">>

\* The whole of cleanup; it holds no await.
cleanup ==
    /\ phase = "serving"
    /\ LoopFree
    /\ cleanupPc = "scheduled"
    /\ ndi_recv' = "destroyed"
    /\ destroyCalls' = destroyCalls + 1
    /\ cancelPump' = CancelOtherTasks
    /\ frame_queue' = DrainAll(frame_queue)
    /\ cleanupPc' = "done"
    /\ teardown' = teardown \o CleanupOrder
    /\ UNCHANGED <<phase, polls, captured, pumpPc, staleCapture, session, offer_type,
                   last_frame, lastRecv, last_pts, response>>

\* Ctrl-C: asyncio.run cancels every task and closes the loop; main
\* never calls runner.cleanup(), so the shutdown hook is not run here.
KeyboardInterrupt ==
    /\ phase = "serving"
    /\ phase' = "exited"
    /\ pumpPc' = "cancelled"
    /\ UNCHANGED <<polls, frame_queue, captured, cancelPump, ndi_recv,
                   destroyCalls, staleCapture, cleanupPc, teardown, session, offer_type, last_frame,
                   lastRecv, last_pts, response>>

-----------------------------------------------------------------------------
Next ==
    \/ \E ok \in BOOLEAN : ndi_connect(ok)
    \/ \E sources \in BOOLEAN, recv_ok \in BOOLEAN :
          ndi_find_sources(sources, recv_ok)
    \/ \E video \in BOOLEAN : ndi_receive_frames(video)
    \/ pump_cancelled
    \/ \E s \in Sessions : recv(s)
    \/ \E keys \in SUBSET Keys, type \in Types : handle_offer(keys, type)
    \/ \E s \in Sessions, ok \in BOOLEAN : handle_offer_answer(s, ok)
    \/ on_shutdown
    \/ cleanup
    \/ KeyboardInterrupt

Spec == Init /\ [][Next]_vars

-----------------------------------------------------------------------------
(* Properties *)

\* capture order of a frame; the placeholder precedes every capture
Age(f) == IF f = None THEN 0 ELSE f.seq

\* the frame a recv call on track s would prepare in the current state
Prepared(s) == FrameData(DrainLatest(frame_queue, last_frame[s])[2])

\* C1: the frame a recv call prepares for return is never older than the
\* frame of the last pump write completed when the call began.  Every
\* captured frame is written in the step that captures it, so that frame
\* is the one numbered captured.
C1_Freshness ==
    [][\A s \in Sessions :
         recv(s) => Age(lastRecv'.frame_data) >= captured]_vars

\* C2: a recv call on one track leaves unchanged the frame a recv call on
\* any other open track would prepare.
C2_Independence ==
    [][\A a \in Sessions : \A b \in Sessions \ {a} :
         (recv(a) /\ session[b] = "open") => Prepared(b)' = Prepared(b)]_vars

\* C3: every recv call returns a frame with a pts, and the pts is greater
\* than the pts of the frame the same track returned before.
C3_PtsIncrease ==
    [][\A s \in Sessions :
         recv(s) => /\ lastRecv'.returned # None
                    /\ last_pts'[s] # None
                    /\ last_pts[s] # None => last_pts'[s].pts > last_pts[s].pts]_vars

\* C4: while no capture has succeeded, every recv call returns the
\* placeholder: 640 by 480, 3 channels, every byte zero.
C4_BlankBeforeCapture ==
    [][\A s \in Sessions :
         (recv(s) /\ captured = 0) =>
             /\ lastRecv'.returned # None
             /\ lastRecv'.returned.data =
                    [seq |-> 0, height |-> 480, width |-> 640, channels |-> 3,
                     fill |-> 0]]_vars

\* C5: a recv call on a track that obtained a frame earlier, made when the
\* queue holds nothing newer, returns that last frame again.
C5_ReEmitLast ==
    [][\A s \in Sessions :
         (recv(s) /\ frame_queue = <<>> /\ last_frame[s] # None) =>
             /\ lastRecv'.returned # None
             /\ lastRecv'.returned.data = last_frame[s]]_vars

\* C6: an offer whose body lacks sdp or type is answered 400 and leaves the
\* sessions, the tracks and the frame queue as they were.
C6_MalformedRejected ==
    [][\A keys \in SUBSET Keys : \A type \in Types :
         (handle_offer(keys, type) /\ keys # {"sdp", "type"}) =>
             /\ response' = 400
             /\ UNCHANGED <<session, last_frame, frame_queue>>]_vars

\* C6 witness: a 400 was answered while a session is open and frames wait
C6_Witness ==
    /\ response = 400
    /\ \E s \in Sessions : session[s] = "open"
    /\ frame_queue # <<>>

\* C7: the frame queue never holds more than 10 frames.
C7_QueueBounded == Len(frame_queue) <= 10

\* C7 witness: the queue is full after more than 10 captures
C7_Witness == Len(frame_queue) = 10 /\ captured > 10

\* C8: a captured frame inserted into a queue of 10 discards exactly the
\* oldest one; the queue is then the other nine followed by the new frame,
\* in capture order.
C8_OldestDiscarded ==
    [][(captured' = captured + 1 /\ Len(frame_queue) = 10) =>
         /\ frame_queue' = Append(Tail(frame_queue),
                                  [seq |-> captured + 1, channels |-> 3])
         /\ \A i \in 1..(Len(frame_queue') - 1) :
                frame_queue'[i].seq < frame_queue'[i + 1].seq]_vars

\* C8 witness: the queue after such an insertion, its oldest frame gone
C8_Witness ==
    /\ Len(frame_queue) = 10
    /\ frame_queue[1].seq = 2
    /\ frame_queue[10].seq = 11

\* C9: no capture is issued on a destroyed handle, and once cleanup has run
\* the pump is never again about to capture.
C9_NoCaptureAfterCleanup ==
    /\ ~staleCapture
    /\ cleanupPc = "done" => pumpPc # "capture"

\* C9 witness: cleanup ran after captures and the pump ended cancelled
C9_Witness ==
    /\ cleanupPc = "done"
    /\ ndi_recv = "destroyed"
    /\ captured > 0
    /\ pumpPc = "cancelled"

\* C10: the handle is destroyed at most once, and once the process has
\* exited it has been destroyed exactly once.
C10_ReleasedOnce ==
    /\ destroyCalls <= 1
    /\ phase = "exited" => destroyCalls = 1

\* C11: a negotiation that raises is answered 500 and its session is
\* dropped: it is failed from then on and its track is never read; the
\* other sessions, the pump and the frame queue are as they were.
C11_FailedNegotiation ==
    [][\A s \in Sessions :
         /\ handle_offer_answer(s, FALSE) =>
                /\ response' = 500
                /\ session'[s] = "failed"
                /\ \A t \in Sessions \ {s} : session'[t] = session[t]
                /\ UNCHANGED <<frame_queue, last_frame, pumpPc, cancelPump,
                               captured, ndi_recv>>
         /\ session[s] = "failed" => (session'[s] = "failed" /\ ~recv(s))]_vars

\* C11 witness: one offer failed with 500 beside an open session, frames
\* waiting in the queue
C11_Witness ==
    /\ response = 500
    /\ \E s \in Sessions : \E t \in Sessions :
          session[s] = "failed" /\ session[t] = "open"
    /\ frame_queue # <<>>

\* C16: a body that holds sdp and type but whose type is not offer is
\* answered 400 and makes no peer connection and no track.
C16_NonOfferRejected ==
    [][\A type \in Types \ {"offer"} :
         handle_offer(Keys, type) =>
             /\ response' = 400
             /\ UNCHANGED <<session, last_frame>>]_vars

\* C12: ndi_connect does not go on polling: once MaxPolls polls have found
\* no source it has failed with the error for no source found.
C12_BoundedDiscovery == polls = MaxPolls => phase = "failed"

\* C13: while an offer handler or a track's recv waits to run, every
\* round of the pump gives the event loop back before its next capture,
\* also a round whose capture returned a video frame.
C13_PumpYields ==
    [][((\E s \in Sessions : session[s] \in {"negotiating", "open"})
          /\ (\E video \in BOOLEAN : ndi_receive_frames(video)))
        => pumpPc' # "capture"]_vars

\* C14: the shutdown cancels the pump first, releases the handle after
\* that and drains the queue last.
C14_ShutdownOrder ==
    cleanupPc = "done" =>
        SubSeq(teardown, 1, 3) = <<"cancel", "recv_destroy", "drain">>

\* C15: once cleanup has run no session is open any more.
C15_SessionsClosed ==
    cleanupPc = "done" => \A s \in Sessions : session[s] # "open"

\* C17: a recv call made on an empty queue does not raise: it ends by
\* returning a frame, whether or not a frame arrived before.
C17_NeverRaises ==
    [][\A s \in Sessions :
         (recv(s) /\ frame_queue = <<>>) =>
             /\ lastRecv'.raised = ""
             /\ lastRecv'.returned # None]_vars

\* C18: the pump is never suspended in its put: after its get_nowait the
\* queue has room for the frame.
C18_PutNeverWaits == pumpPc # "put"

\* C18 witness: the pump has put into a full queue with no session at all
C18_Witness ==
    /\ captured = 11
    /\ Len(frame_queue) = 10
    /\ pumpPc = "capture"
    /\ \A s \in Sessions : session[s] = "none"

\* C19: a capture that yields no video frame leaves the queue and every
\* track's last frame as they were and leaves the pump suspended in its
\* sleep, from where, unless it is cancelled, it captures again.
C19_EmptyPoll ==
    [][/\ ndi_receive_frames(FALSE) =>
            /\ UNCHANGED <<frame_queue, last_frame, captured>>
            /\ pumpPc' = "sleep"
       /\ (phase = "serving" /\ pumpPc = "sleep" /\ ~cancelPump) =>
            ENABLED (\E video \in BOOLEAN : ndi_receive_frames(video))]_vars

\* C19 witness: the pump sleeps after an empty poll, frames in the queue
\* and in a track
C19_Witness ==
    /\ phase = "serving"
    /\ pumpPc = "sleep"
    /\ ~cancelPump
    /\ frame_queue # <<>>
    /\ \E s \in Sessions : last_frame[s] # None

\* C20: the frame a recv call prepares on a track is never captured
\* earlier than the one the track held before the call, and is not the
\* placeholder once the track has held a captured frame; a frame that is
\* returned is the prepared one.
C20_TrackOrder ==
    [][\A s \in Sessions :
         recv(s) =>
             /\ Age(lastRecv'.frame_data) >= Age(last_frame[s])
             /\ last_frame[s] # None => lastRecv'.frame_data.seq >= 1
             /\ lastRecv'.returned # None =>
                    lastRecv'.returned.data = lastRecv'.frame_data]_vars

\* C20 witness: track s called recv again after track t had taken the
\* newest frame, and still holds the older frame it got before
C20_Witness ==
    \E s \in Sessions : \E t \in Sessions \ {s} :
        /\ lastRecv.track = s
        /\ frame_queue = <<>>
        /\ last_frame[s] # None
        /\ last_frame[t] # None
        /\ last_frame[t].seq = captured
        /\ last_frame[s].seq < captured
        /\ lastRecv.frame_data = last_frame[s]

====
